---- MODULE Spec2Model ----
(***************************************************************************)
(* Model of jointstate2tf (src/src/index.ts): the URDF joint parser, the   *)
(* minimal math kernel, the per-joint motion model and the JointStateToTF  *)
(* engine (setJointState / compute / computeFromJointState).               *)
(*                                                                         *)
(* Numbers.  A JavaScript number is modelled as an exact rational <<n, d>> *)
(* in lowest terms with d > 0.  Math.sin / Math.cos are library functions; *)
(* they are modelled by the rational surrogate                             *)
(*      sin h = 2t / (1 + t^2),  cos h = (1 - t^2) / (1 + t^2),  t = h/2   *)
(* which keeps sin 0 = 0, cos 0 = 1, parity and sin^2 + cos^2 = 1 exactly. *)
(*                                                                         *)
(* Text.  A string is a sequence of items: " " is one whitespace           *)
(* character, any other item is a run of non-whitespace characters.  The   *)
(* description text is a sequence of tags, each [kind, tag, attrs] with    *)
(* kind "open" (<t ..>), "self" (<t ../>) or "close" (</t>).               *)
(***************************************************************************)
EXTENDS Integers, Sequences, FiniteSets, TLC

VARIABLES xml, engine, frame, ret

vars == <<xml, engine, frame, ret>>

(***************************************************************************)
(* Numbers                                                                 *)
(***************************************************************************)
Abs(n) == IF n < 0 THEN -n ELSE n

RECURSIVE Gcd(_, _)
Gcd(a, b) == IF b = 0 THEN a ELSE Gcd(b, a % b)

Rat(n, d) ==
  LET g == Gcd(Abs(n), Abs(d))
      s == IF d < 0 THEN -1 ELSE 1
  IN  <<(s * n) \div g, Abs(d) \div g>>

RInt(n) == <<n, 1>>

RZero == RInt(0)

ROne == RInt(1)

RTwo == RInt(2)

RHalf == Rat(1, 2)

RNeg(a) == <<-a[1], a[2]>>

RAdd(a, b) ==
  LET g == Gcd(a[2], b[2])
  IN  Rat(a[1] * (b[2] \div g) + b[1] * (a[2] \div g), (a[2] \div g) * b[2])

RSub(a, b) == RAdd(a, RNeg(b))

\* cross-reduced first, so the product is in lowest terms
RMul(a, b) ==
  LET g1 == Gcd(Abs(a[1]), b[2])
      g2 == Gcd(Abs(b[1]), a[2])
  IN  <<(a[1] \div g1) * (b[1] \div g2), (a[2] \div g2) * (b[2] \div g1)>>

RDiv(a, b) == RMul(a, Rat(b[2], b[1]))

ISqrt(n) == CHOOSE r \in 0..n : r * r = n

\* Math.sqrt on the squares of rationals (the only arguments the model feeds it)
RSqrt(a) == <<ISqrt(a[1]), ISqrt(a[2])>>

\* Math.sin / Math.cos: rational surrogate on the unit circle (see header)
MathSin(h) ==
  LET t == RMul(h, RHalf)
  IN  RDiv(RMul(RTwo, t), RAdd(ROne, RMul(t, t)))

MathCos(h) ==
  LET t == RMul(h, RHalf)
  IN  RDiv(RSub(ROne, RMul(t, t)), RAdd(ROne, RMul(t, t)))

(***************************************************************************)
(* Minimal math                                                            *)
(***************************************************************************)
vec3(x, y, z) == [x |-> x, y |-> y, z |-> z]

quatIdentity == [x |-> RZero, y |-> RZero, z |-> RZero, w |-> ROne]

vec3Add(a, b) == [x |-> RAdd(a.x, b.x), y |-> RAdd(a.y, b.y), z |-> RAdd(a.z, b.z)]

vec3Scale(a, s) == [x |-> RMul(a.x, s), y |-> RMul(a.y, s), z |-> RMul(a.z, s)]

vec3Length(a) ==
  RSqrt(RAdd(RAdd(RMul(a.x, a.x), RMul(a.y, a.y)), RMul(a.z, a.z)))

\* faulty variant of vec3Normalize: the vector is returned as it came
vec3NotNormalized(a) == a

vec3Normalize(a) ==
  LET l   == vec3Length(a)
      len == IF l = RZero THEN ROne ELSE l
  IN  [x |-> RDiv(a.x, len), y |-> RDiv(a.y, len), z |-> RDiv(a.z, len)]

quatMultiply(a, b) ==
  [w |-> RSub(RSub(RSub(RMul(a.w, b.w), RMul(a.x, b.x)), RMul(a.y, b.y)), RMul(a.z, b.z)),
   x |-> RSub(RAdd(RAdd(RMul(a.w, b.x), RMul(a.x, b.w)), RMul(a.y, b.z)), RMul(a.z, b.y)),
   y |-> RAdd(RAdd(RSub(RMul(a.w, b.y), RMul(a.x, b.z)), RMul(a.y, b.w)), RMul(a.z, b.x)),
   z |-> RAdd(RSub(RAdd(RMul(a.w, b.z), RMul(a.x, b.y)), RMul(a.y, b.x)), RMul(a.z, b.w))]

quatFromAxisAngle(axis, angle) ==
  LET n == vec3Normalize(axis)
      h == RMul(angle, RHalf)
      s == MathSin(h)
  IN  [x |-> RMul(n.x, s), y |-> RMul(n.y, s), z |-> RMul(n.z, s), w |-> MathCos(h)]

quatFromRPY(roll, pitch, yaw) ==
  LET cx == MathCos(RMul(roll, RHalf))
      sx == MathSin(RMul(roll, RHalf))
      cy == MathCos(RMul(pitch, RHalf))
      sy == MathSin(RMul(pitch, RHalf))
      cz == MathCos(RMul(yaw, RHalf))
      sz == MathSin(RMul(yaw, RHalf))
  IN  [w |-> RAdd(RMul(RMul(cz, cy), cx), RMul(RMul(sz, sy), sx)),
       x |-> RSub(RMul(RMul(cz, cy), sx), RMul(RMul(sz, sy), cx)),
       y |-> RAdd(RMul(RMul(cz, sy), cx), RMul(RMul(sz, cy), sx)),
       z |-> RSub(RMul(RMul(sz, cy), cx), RMul(RMul(cz, sy), sx))]

vec3RotateByQuat(v, q) ==
  LET uvx  == RSub(RMul(q.y, v.z), RMul(q.z, v.y))
      uvy  == RSub(RMul(q.z, v.x), RMul(q.x, v.z))
      uvz  == RSub(RMul(q.x, v.y), RMul(q.y, v.x))
      uuvx == RSub(RMul(q.y, uvz), RMul(q.z, uvy))
      uuvy == RSub(RMul(q.z, uvx), RMul(q.x, uvz))
      uuvz == RSub(RMul(q.x, uvy), RMul(q.y, uvx))
  IN  [x |-> RAdd(v.x, RMul(RTwo, RAdd(RMul(q.w, uvx), uuvx))),
       y |-> RAdd(v.y, RMul(RTwo, RAdd(RMul(q.w, uvy), uuvy))),
       z |-> RAdd(v.z, RMul(RTwo, RAdd(RMul(q.w, uvz), uuvz)))]

\* faulty variant of composeTR: the operands taken in the other order
composeTRSwapped(a, b) ==
  [r |-> quatMultiply(b.r, a.r),
   t |-> vec3Add(b.t, vec3RotateByQuat(a.t, b.r))]

composeTR(a, b) ==
  [r |-> quatMultiply(a.r, b.r),
   t |-> vec3Add(a.t, vec3RotateByQuat(b.t, a.r))]

(***************************************************************************)
(* JavaScript values: optional results, Map / plain-object tables          *)
(***************************************************************************)
\* undefined / null
None == [some |-> FALSE]

Some(v) == [some |-> TRUE, v |-> v]

\* a Map (or a plain object) is the sequence of its [k, v] entries in insertion order
MapHas(m, k) == \E i \in 1..Len(m) : m[i].k = k

MapIdx(m, k) == CHOOSE i \in 1..Len(m) : m[i].k = k

MapGet(m, k) == IF MapHas(m, k) THEN Some(m[MapIdx(m, k)].v) ELSE None

MapSet(m, k, v) ==
  IF MapHas(m, k) THEN [m EXCEPT ![MapIdx(m, k)].v = v]
  ELSE Append(m, [k |-> k, v |-> v])

(***************************************************************************)
(* Strings                                                                 *)
(***************************************************************************)
WS == " "

RECURSIVE trimStart(_)
trimStart(s) == IF s # <<>> /\ Head(s) = WS THEN trimStart(Tail(s)) ELSE s

RECURSIVE trimEnd(_)
trimEnd(s) ==
  IF s # <<>> /\ s[Len(s)] = WS THEN trimEnd(SubSeq(s, 1, Len(s) - 1)) ELSE s

\* String.prototype.trim
trim(s) == trimEnd(trimStart(s))

RECURSIVE splitFrom(_, _, _)
splitFrom(s, cur, inWs) ==
  IF s = <<>> THEN <<cur>>
  ELSE IF Head(s) = WS
       THEN IF inWs THEN splitFrom(Tail(s), cur, TRUE)
            ELSE <<cur>> \o splitFrom(Tail(s), <<>>, TRUE)
       ELSE splitFrom(Tail(s), Append(cur, Head(s)), FALSE)

\* s.split(/\s+/): the pieces between maximal whitespace runs, empty ends kept
split(s) == splitFrom(s, <<>>, FALSE)

\* the numeric literals the descriptions of the model use
NumLit ==
  [l \in {"0", "1", "2", "3", "4", "-1", "0.5"} |->
     CASE l = "0" -> RInt(0)
       [] l = "1" -> RInt(1)
       [] l = "2" -> RInt(2)
       [] l = "3" -> RInt(3)
       [] l = "4" -> RInt(4)
       [] l = "-1" -> RInt(-1)
       [] l = "0.5" -> RHalf]

\* Number(piece): "" is 0, a numeric literal is its value, anything else NaN
Number(p) ==
  IF p = <<>> THEN [nan |-> FALSE, v |-> RZero]
  ELSE IF Len(p) = 1 /\ p[1] \in DOMAIN NumLit THEN [nan |-> FALSE, v |-> NumLit[p[1]]]
  ELSE [nan |-> TRUE]

\* the i-th destructured element of s.split(/\s+/).map(Number), then `|| 0`
elemOrZero(pieces, i) ==
  IF i > Len(pieces) THEN RZero
  ELSE LET n == Number(pieces[i]) IN IF n.nan THEN RZero ELSE n.v

(***************************************************************************)
(* URDF parsing                                                            *)
(***************************************************************************)
Tag(kind, tag, attrs) == [kind |-> kind, tag |-> tag, attrs |-> attrs]

Attr(k, v) == [k |-> k, v |-> v]

RECURSIVE parseAttrsFrom(_, _)
parseAttrsFrom(s, out) ==
  IF s = <<>> THEN out
  ELSE parseAttrsFrom(Tail(s), MapSet(out, Head(s).k, Head(s).v))

parseAttrs(s) == parseAttrsFrom(s, <<>>)

\* regex exec: the first tag of the block among the given kinds, or null
firstTag(block, tag, kinds) ==
  IF \E i \in 1..Len(block) : block[i].tag = tag /\ block[i].kind \in kinds
  THEN Some(block[CHOOSE i \in 1..Len(block) :
                    /\ block[i].tag = tag /\ block[i].kind \in kinds
                    /\ \A k \in 1..(i - 1) : ~(block[k].tag = tag /\ block[k].kind \in kinds)])
  ELSE None

\* faulty variant of parseSingleTagAttr: an opening tag is accepted as well
parseSingleTagAttrAnyKind(block, tag, attr) ==
  LET m == firstTag(block, tag, {"self", "open"})
  IN  IF ~m.some THEN None
      ELSE LET v == MapGet(parseAttrs(m.v.attrs), attr)
           IN  IF v.some THEN Some(trim(v.v)) ELSE None

parseSingleTagAttr(block, tag, attr) ==
  LET m == firstTag(block, tag, {"self"})
  IN  IF ~m.some THEN None
      ELSE LET v == MapGet(parseAttrs(m.v.attrs), attr)
           IN  IF v.some THEN Some(trim(v.v)) ELSE None

parseFirstSelfOrOpenTag(block, tag) ==
  LET m == firstTag(block, tag, {"self"})
  IN  IF m.some THEN Some(parseAttrs(m.v.attrs))
      ELSE LET o == firstTag(block, tag, {"open", "self"})
           IN  IF o.some THEN Some(parseAttrs(o.v.attrs)) ELSE None

\* originAttrs?.xyz and the like: undefined when the tag or the attribute is absent
optAttr(attrs, key) == IF attrs.some THEN MapGet(attrs.v, key) ELSE None

parseXyz(s) ==
  IF ~s.some \/ s.v = <<>> THEN vec3(RZero, RZero, RZero)
  ELSE LET p == split(s.v)
       IN  vec3(elemOrZero(p, 1), elemOrZero(p, 2), elemOrZero(p, 3))

parseXyzVec(s) == parseXyz(Some(s))

parseRpy(s) ==
  IF ~s.some \/ s.v = <<>> THEN quatIdentity
  ELSE LET p == split(s.v)
       IN  quatFromRPY(elemOrZero(p, 1), elemOrZero(p, 2), elemOrZero(p, 3))

JointTypes == {"revolute", "continuous", "prismatic", "fixed"}

parseJointBlock(block) ==
  LET openMatch == firstTag(block, "joint", {"open", "self"})
  IN  IF ~openMatch.some THEN None
      ELSE
        LET openAttrs  == parseAttrs(openMatch.v.attrs)
            nameAttr   == MapGet(openAttrs, "name")
            name       == trim(IF nameAttr.some THEN nameAttr.v ELSE <<>>)
            typeAttr   == MapGet(openAttrs, "type")
            type       == trim(IF typeAttr.some THEN typeAttr.v ELSE <<"fixed">>)
            parentLink == parseSingleTagAttr(block, "parent", "link")
            childLink  == parseSingleTagAttr(block, "child", "link")
        IN  IF \/ name = <<>>
               \/ ~parentLink.some \/ parentLink.v = <<>>
               \/ ~childLink.some \/ childLink.v = <<>>
            THEN None
            ELSE
              LET originAttrs == parseFirstSelfOrOpenTag(block, "origin")
                  originT     == parseXyz(optAttr(originAttrs, "xyz"))
                  originRpy   == parseRpy(optAttr(originAttrs, "rpy"))
                  axisAttrs   == parseFirstSelfOrOpenTag(block, "axis")
                  axisXyz     == optAttr(axisAttrs, "xyz")
                  axis        == IF axisXyz.some /\ axisXyz.v # <<>>
                                 THEN parseXyzVec(axisXyz.v)
                                 ELSE vec3(ROne, RZero, RZero)
              IN  Some([name   |-> name,
                        type   |-> IF Len(type) = 1 /\ type[1] \in JointTypes
                                   THEN type[1] ELSE "fixed",
                        parent |-> parentLink.v,
                        child  |-> childLink.v,
                        origin |-> [r |-> originRpy, t |-> originT],
                        axis   |-> vec3Normalize(axis),
                        q      |-> RZero])

isJointStart(t) == t.tag = "joint" /\ t.kind \in {"open", "self"}

isJointEnd(t) == t.tag = "joint" /\ t.kind = "close"

\* /<joint\b[\s\S]*?<\/joint>/g: from a <joint tag to the first </joint> after it
RECURSIVE extractJointBlocks(_)
extractJointBlocks(x) ==
  IF x = <<>> THEN <<>>
  ELSE IF ~isJointStart(Head(x)) THEN extractJointBlocks(Tail(x))
  ELSE IF \E i \in 2..Len(x) : isJointEnd(x[i])
       THEN LET e == CHOOSE i \in 2..Len(x) :
                       isJointEnd(x[i]) /\ \A k \in 2..(i - 1) : ~isJointEnd(x[k])
            IN  <<SubSeq(x, 1, e)>> \o extractJointBlocks(SubSeq(x, e + 1, Len(x)))
       ELSE <<>>

\* .map(parseJointBlock).filter(j => !!j)
RECURSIVE parsedJoints(_)
parsedJoints(blocks) ==
  IF blocks = <<>> THEN <<>>
  ELSE LET j == parseJointBlock(Head(blocks))
       IN  (IF j.some THEN <<j.v>> ELSE <<>>) \o parsedJoints(Tail(blocks))

\* faulty variant of buildModel: the first joint of a name is kept
RECURSIVE buildModelKeepFirst(_, _, _)
buildModelKeepFirst(heap, i, m) ==
  IF i > Len(heap) THEN m
  ELSE LET j   == heap[i]
           old == MapGet(m.jointsByParentLink, j.parent)
           arr == IF old.some THEN old.v ELSE <<>>
       IN  buildModelKeepFirst(heap, i + 1,
             [heap               |-> heap,
              jointsByName       |-> IF MapHas(m.jointsByName, j.name) THEN m.jointsByName
                                     ELSE MapSet(m.jointsByName, j.name, i),
              linkParent         |-> MapSet(m.linkParent, j.child, j.parent),
              jointsByParentLink |-> MapSet(m.jointsByParentLink, j.parent, Append(arr, i))])

\* The for loop of parseUrdf.  Joint objects live in heap (in the order of the
\* joints array); the three lookup structures hold references (heap indices).
RECURSIVE buildModel(_, _, _)
buildModel(heap, i, m) ==
  IF i > Len(heap) THEN m
  ELSE LET j   == heap[i]
           old == MapGet(m.jointsByParentLink, j.parent)
           arr == IF old.some THEN old.v ELSE <<>>
       IN  buildModel(heap, i + 1,
             [heap               |-> heap,
              jointsByName       |-> MapSet(m.jointsByName, j.name, i),
              linkParent         |-> MapSet(m.linkParent, j.child, j.parent),
              jointsByParentLink |-> MapSet(m.jointsByParentLink, j.parent, Append(arr, i))])

parseUrdf(text) ==
  LET joints == parsedJoints(extractJointBlocks(text))
  IN  buildModel(joints, 1,
        [heap |-> joints, jointsByName |-> <<>>, linkParent |-> <<>>,
         jointsByParentLink |-> <<>>])

\* fromXml: parse once, keep the model
fromXml(text) == parseUrdf(text)

(***************************************************************************)
(* Motion model and the JointStateToTF methods.  `this` is the engine: the *)
(* heap of joint objects and the three lookup structures of the model.     *)
(* Every method yields [this, ret]: the engine after the call and the      *)
(* value returned (None for undefined).                                    *)
(***************************************************************************)
\* faulty variant of jointMotionTR: the default case falls into the prismatic one
jointMotionTRFallThrough(j) ==
  CASE j.type \in {"revolute", "continuous"} ->
         [r |-> quatFromAxisAngle(j.axis, j.q), t |-> vec3(RZero, RZero, RZero)]
    [] OTHER ->
         [r |-> quatIdentity, t |-> vec3Scale(j.axis, j.q)]

jointMotionTR(j) ==
  CASE j.type \in {"revolute", "continuous"} ->
         [r |-> quatFromAxisAngle(j.axis, j.q), t |-> vec3(RZero, RZero, RZero)]
    [] j.type = "prismatic" ->
         [r |-> quatIdentity, t |-> vec3Scale(j.axis, j.q)]
    [] OTHER ->
         [r |-> quatIdentity, t |-> vec3(RZero, RZero, RZero)]

\* faulty variant of nameToPosFrom: the first occurrence of a name wins
RECURSIVE nameToPosFirstWins(_, _, _)
nameToPosFirstWins(jointState, i, m) ==
  IF i > Len(jointState.name) THEN m
  ELSE nameToPosFirstWins(jointState, i + 1,
         IF MapHas(m, jointState.name[i]) THEN m
         ELSE MapSet(m, jointState.name[i],
                     IF i <= Len(jointState.position) THEN jointState.position[i]
                     ELSE RZero))

\* jointState.name.forEach((n, i) => nameToPos.set(n, jointState.position[i] ?? 0))
RECURSIVE nameToPosFrom(_, _, _)
nameToPosFrom(jointState, i, m) ==
  IF i > Len(jointState.name) THEN m
  ELSE nameToPosFrom(jointState, i + 1,
         MapSet(m, jointState.name[i],
                IF i <= Len(jointState.position) THEN jointState.position[i] ELSE RZero))

\* nameToPos.forEach((pos, name) => { const j = jointsByName.get(name); if (j) j.q = pos })
RECURSIVE applyPositions(_, _, _)
applyPositions(this, m, i) ==
  IF i > Len(m) THEN this
  ELSE LET j == MapGet(this.jointsByName, m[i].k)
       IN  applyPositions(IF j.some THEN [this EXCEPT !.heap[j.v].q = m[i].v] ELSE this,
                          m, i + 1)

\* faulty variant of setJointState: every value is reset before the update
setJointStateResetting(this, jointState) ==
  [this |-> applyPositions(
              [this EXCEPT !.heap = [i \in 1..Len(this.heap) |->
                                       [this.heap[i] EXCEPT !.q = RZero]]],
              nameToPosFrom(jointState, 1, <<>>), 1),
   ret  |-> None]

setJointState(this, jointState) ==
  [this |-> applyPositions(this, nameToPosFrom(jointState, 1, <<>>), 1),
   ret  |-> None]

NsPerSec == 1000000000

\* Math.trunc(a / b) on integers
truncDiv(a, b) == IF a >= 0 THEN a \div b ELSE -((-a) \div b)

\* Math.trunc(a % b) on integers: the remainder takes the sign of the dividend
truncRem(a, b) == a - b * truncDiv(a, b)

\* options.publishTimeNs ? ... : 0  (undefined and 0 are both falsy)
stampOf(options) ==
  IF options.publishTimeNs.some /\ options.publishTimeNs.v # 0
  THEN [sec     |-> truncDiv(options.publishTimeNs.v, NsPerSec),
        nanosec |-> truncRem(options.publishTimeNs.v, NsPerSec)]
  ELSE [sec |-> 0, nanosec |-> 0]

transformOf(joint, options) ==
  LET motion == jointMotionTR(joint)
      rel    == composeTR(joint.origin, motion)
  IN  [header         |-> [stamp |-> stampOf(options), frame_id |-> joint.parent],
       child_frame_id |-> joint.child,
       transform      |-> [translation |-> rel.t, rotation |-> rel.r]]

\* faulty variant of compute: the joint values are consumed by the call
computeConsuming(this, options) ==
  [this |-> [this EXCEPT !.heap = [i \in 1..Len(this.heap) |->
                                     [this.heap[i] EXCEPT !.q = RZero]]],
   ret  |-> Some([transforms |->
                    [i \in 1..Len(this.jointsByName) |->
                       transformOf(this.heap[this.jointsByName[i].v], options)]])]

compute(this, options) ==
  [this |-> this,
   ret  |-> Some([transforms |->
                    [i \in 1..Len(this.jointsByName) |->
                       transformOf(this.heap[this.jointsByName[i].v], options)]])]

\* faulty variant of computeFromJointState: computes before it sets
computeThenSet(this, jointState, options) ==
  [this |-> setJointState(this, jointState).this,
   ret  |-> compute(this, options).ret]

computeFromJointState(this, jointState, options) ==
  compute(setJointState(this, jointState).this, options)

(***************************************************************************)
(* Descriptions                                                            *)
(***************************************************************************)
word(w) == <<w>>

xyzText(a, b, c) == <<a, WS, b, WS, c>>

selfTag(tag, attrs) == <<Tag("self", tag, attrs)>>

parentTag(l) == selfTag("parent", <<Attr("link", l)>>)

childTag(l) == selfTag("child", <<Attr("link", l)>>)

originTag(xyz, rpy) == selfTag("origin", <<Attr("xyz", xyz), Attr("rpy", rpy)>>)

axisTag(xyz) == selfTag("axis", <<Attr("xyz", xyz)>>)

jointAttrs(name, type) == <<Attr("name", name), Attr("type", type)>>

jointBlock(attrs, body) ==
  <<Tag("open", "joint", attrs)>> \o body \o <<Tag("close", "joint", <<>>)>>

robot(blocks) ==
  <<Tag("open", "robot", <<Attr("name", word("mini"))>>),
    Tag("self", "link", <<Attr("name", word("base_link"))>>)>>
  \o blocks \o <<Tag("close", "robot", <<>>)>>

\* the two joints of the README's test description
BlockJoint1 ==
  jointBlock(jointAttrs(word("joint1"), word("revolute")),
    parentTag(word("base_link")) \o childTag(word("link1"))
    \o originTag(xyzText("1", "0", "0"), xyzText("0", "0", "0"))
    \o axisTag(xyzText("0", "0", "1")))

BlockJoint2 ==
  jointBlock(jointAttrs(word("joint2"), word("prismatic")),
    parentTag(word("link1")) \o childTag(word("link2"))
    \o originTag(xyzText("0", "1", "0"), xyzText("0", "0", "0"))
    \o axisTag(xyzText("1", "0", "0")))

BlockContinuous ==
  jointBlock(jointAttrs(word("joint1"), word("continuous")),
    parentTag(word("base_link")) \o childTag(word("link1"))
    \o originTag(xyzText("1", "2", "0"), xyzText("0", "0", "2"))
    \o axisTag(xyzText("0", "3", "4")))

BlockPrismaticTilted ==
  jointBlock(jointAttrs(word("joint2"), word("prismatic")),
    parentTag(word("link1")) \o childTag(word("link2"))
    \o originTag(xyzText("0", "1", "0"), xyzText("2", "0", "0"))
    \o axisTag(xyzText("2", "0", "0")))

BlockNoType ==
  jointBlock(<<Attr("name", word("joint1"))>>,
    parentTag(word("base_link")) \o childTag(word("link1"))
    \o originTag(xyzText("1", "0", "0"), xyzText("0", "2", "0")))

BlockUnknownType ==
  jointBlock(jointAttrs(word("joint2"), word("floating")),
    parentTag(word("link1")) \o childTag(word("link2"))
    \o originTag(xyzText("0", "0.5", "0"), xyzText("0", "0", "2"))
    \o axisTag(xyzText("0", "0", "1")))

\* same name as BlockJoint1 once trimmed; the type is recognised once trimmed
BlockFixedPadded ==
  jointBlock(jointAttrs(<<WS, "joint1", WS>>, <<WS, "fixed">>),
    parentTag(word("link2")) \o childTag(<<"link3", WS>>)
    \o originTag(xyzText("0", "0", "1"), xyzText("2", "0", "0")))

BlockNoName ==
  jointBlock(<<Attr("type", word("revolute"))>>,
    parentTag(word("base_link")) \o childTag(word("link1")))

BlockBlankName ==
  jointBlock(jointAttrs(<<WS>>, word("revolute")),
    parentTag(word("base_link")) \o childTag(word("link1")))

BlockNoParent ==
  jointBlock(jointAttrs(word("joint1"), word("revolute")), childTag(word("link1")))

\* <parent link=".."></parent>: not self-closing
BlockParentPair ==
  jointBlock(jointAttrs(word("joint2"), word("revolute")),
    <<Tag("open", "parent", <<Attr("link", word("link1"))>>), Tag("close", "parent", <<>>)>>
    \o childTag(word("link2")))

\* the first self-closing <parent/> has no link attribute, a second one has
BlockParentNoLink ==
  jointBlock(jointAttrs(word("joint1"), word("revolute")),
    selfTag("parent", <<Attr("name", word("base_link"))>>)
    \o parentTag(word("base_link")) \o childTag(word("link1")))

BlockChildEmpty ==
  jointBlock(jointAttrs(word("joint2"), word("prismatic")),
    parentTag(word("link1")) \o childTag(<<>>))

BlockChildBlank ==
  jointBlock(jointAttrs(word("joint1"), word("fixed")),
    parentTag(word("link1")) \o childTag(<<WS>>))

BlockAxisZero ==
  jointBlock(jointAttrs(word("joint2"), word("revolute")),
    parentTag(word("link1")) \o childTag(word("link2"))
    \o axisTag(xyzText("0", "0", "0")))

\* " 1 0 0" splits into "", "1", "0", "0"; the origin is an open/close pair
BlockAxisLeadingSpace ==
  jointBlock(jointAttrs(word("joint3"), word("prismatic")),
    parentTag(word("link2")) \o childTag(word("link3"))
    \o <<Tag("open", "origin", <<Attr("xyz", <<"x", WS, "2">>)>>), Tag("close", "origin", <<>>)>>
    \o axisTag(<<WS, "1", WS, "0", WS, "0">>))

\* <joint .../> with no </joint> of its own: the block runs to the next </joint>
BlockUnclosed == <<Tag("self", "joint", jointAttrs(word("joint3"), word("fixed")))>>

RunDescriptions ==
  { robot(BlockJoint1 \o BlockJoint2),
    robot(BlockContinuous \o BlockPrismaticTilted),
    robot(BlockNoType \o BlockUnknownType),
    robot(BlockJoint1 \o BlockFixedPadded) }

ParseBlocks ==
  { BlockJoint1, BlockJoint2, BlockContinuous, BlockPrismaticTilted, BlockNoType,
    BlockUnknownType, BlockFixedPadded, BlockNoName, BlockBlankName, BlockNoParent,
    BlockParentPair, BlockParentNoLink, BlockChildEmpty, BlockChildBlank,
    BlockAxisZero, BlockAxisLeadingSpace, BlockUnclosed }

MaxBlocks == 2

RECURSIVE concat(_)
concat(ss) == IF ss = <<>> THEN <<>> ELSE Head(ss) \o concat(Tail(ss))

SeqsUpTo(S, n) == UNION {[1..k -> S] : k \in 0..n}

ParseDescriptions == {robot(concat(bs)) : bs \in SeqsUpTo(ParseBlocks, MaxBlocks)}

(***************************************************************************)
(* Call inputs                                                             *)
(***************************************************************************)
MaxLen == 2

UpdateNames == {word("joint1"), word("joint2"), word("ghost")}

PositionValues == {RHalf, RTwo}

JointStates ==
  [name : SeqsUpTo(UpdateNames, MaxLen), position : SeqsUpTo(PositionValues, MaxLen)]

NoTime == [publishTimeNs |-> None]

AtTime(t) == [publishTimeNs |-> Some(t)]

PublishTimes == {0, 1, 999999999, 1000000000, 1500000000, 2000000001, -1, -1500000000}

AllOptions == {NoTime} \cup {AtTime(t) : t \in PublishTimes}

SomeTime == AtTime(1500000000)

\* the inputs of the specification of the parser: one update, no publish time
OneJointState ==
  {[name |-> <<word("joint1"), word("joint2")>>, position |-> <<RHalf, RTwo>>]}

(***************************************************************************)
(* The state machine.  The caller makes one call at a time.  frame is the  *)
(* call that has just run, with its arguments, and ret the value it        *)
(* returned, until the caller has consumed the result (Return); compute    *)
(* may also be called again right after a compute.                         *)
(***************************************************************************)
Idle == [op |-> "none"]

InitWith(descriptions) ==
  /\ xml \in descriptions
  /\ engine = fromXml(xml)
  /\ frame = Idle
  /\ ret = None

SetJointState(jointState) ==
  /\ frame = Idle
  /\ LET r == setJointState(engine, jointState)
     IN  engine' = r.this /\ ret' = r.ret
  /\ frame' = [op |-> "setJointState", jointState |-> jointState]
  /\ UNCHANGED xml

Compute(options) ==
  /\ frame = Idle \/ frame.op = "compute"
  /\ LET r == compute(engine, options)
     IN  engine' = r.this /\ ret' = r.ret
  /\ frame' = [op |-> "compute", options |-> options]
  /\ UNCHANGED xml

ComputeFromJointState(jointState, options) ==
  /\ frame = Idle
  /\ LET r == computeFromJointState(engine, jointState, options)
     IN  engine' = r.this /\ ret' = r.ret
  /\ frame' = [op |-> "computeFromJointState", jointState |-> jointState,
               options |-> options]
  /\ UNCHANGED xml

\* the caller has consumed the result of the call
Return ==
  /\ frame # Idle
  /\ frame' = Idle
  /\ ret' = None
  /\ UNCHANGED <<xml, engine>>

Init == InitWith(RunDescriptions)

Next ==
  \/ \E jointState \in JointStates : SetJointState(jointState)
  \/ \E options \in AllOptions : Compute(options)
  \/ \E jointState \in JointStates : ComputeFromJointState(jointState, SomeTime)
  \/ Return

Spec == Init /\ [][Next]_vars

InitParse == InitWith(ParseDescriptions)

NextParse ==
  \/ \E jointState \in OneJointState : SetJointState(jointState)
  \/ Compute(NoTime)
  \/ \E jointState \in OneJointState : ComputeFromJointState(jointState, NoTime)
  \/ Return

SpecParse == InitParse /\ [][NextParse]_vars

(***************************************************************************)
(* Vocabulary of the properties                                            *)
(***************************************************************************)
Computed == frame.op \in {"compute", "computeFromJointState"}

Transforms == ret.v.transforms

\* the i-th joint of the model, in the model's internal (jointsByName) order
ModelJoint(e, i) == e.heap[e.jointsByName[i].v]

ModelNames(e) == {e.jointsByName[i].k : i \in 1..Len(e.jointsByName)}

JointValue(e, n) == e.heap[MapGet(e.jointsByName, n).v].q

Mentions(jointState, n) == \E i \in 1..Len(jointState.name) : jointState.name[i] = n

LastIndex(jointState, n) ==
  CHOOSE i \in 1..Len(jointState.name) :
    /\ jointState.name[i] = n
    /\ \A k \in (i + 1)..Len(jointState.name) : jointState.name[k] # n

PairedPosition(jointState, n) ==
  LET i == LastIndex(jointState, n)
  IN  IF i <= Len(jointState.position) THEN jointState.position[i] ELSE RZero

\* v rotated by the rotation matrix of the quaternion q
RotatedBy(v, q) ==
  LET two(a, b) == RMul(RTwo, RMul(a, b))
      r11 == RSub(ROne, RAdd(two(q.y, q.y), two(q.z, q.z)))
      r12 == RSub(two(q.x, q.y), two(q.z, q.w))
      r13 == RAdd(two(q.x, q.z), two(q.y, q.w))
      r21 == RAdd(two(q.x, q.y), two(q.z, q.w))
      r22 == RSub(ROne, RAdd(two(q.x, q.x), two(q.z, q.z)))
      r23 == RSub(two(q.y, q.z), two(q.x, q.w))
      r31 == RSub(two(q.x, q.z), two(q.y, q.w))
      r32 == RAdd(two(q.y, q.z), two(q.x, q.w))
      r33 == RSub(ROne, RAdd(two(q.x, q.x), two(q.y, q.y)))
  IN  [x |-> RAdd(RAdd(RMul(r11, v.x), RMul(r12, v.y)), RMul(r13, v.z)),
       y |-> RAdd(RAdd(RMul(r21, v.x), RMul(r22, v.y)), RMul(r23, v.z)),
       z |-> RAdd(RAdd(RMul(r31, v.x), RMul(r32, v.y)), RMul(r33, v.z))]

SquaredLength(v) == RAdd(RAdd(RMul(v.x, v.x), RMul(v.y, v.y)), RMul(v.z, v.z))

\* reading a block of the description tag by tag
NonBlank(s) == \E i \in 1..Len(s) : s[i] # WS

LastAttr(attrs, key) ==
  IF \E a \in 1..Len(attrs) : attrs[a].k = key
  THEN Some(attrs[CHOOSE a \in 1..Len(attrs) :
                    attrs[a].k = key /\ \A b \in (a + 1)..Len(attrs) : attrs[b].k # key].v)
  ELSE None

\* the first self-closing <tag .../> of the block carries a non-blank link
HasLink(block, tag) ==
  \E i \in 1..Len(block) :
    /\ block[i].tag = tag /\ block[i].kind = "self"
    /\ \A k \in 1..(i - 1) : ~(block[k].tag = tag /\ block[k].kind = "self")
    /\ LastAttr(block[i].attrs, "link").some
    /\ NonBlank(LastAttr(block[i].attrs, "link").v)

HasName(block) ==
  /\ LastAttr(block[1].attrs, "name").some
  /\ NonBlank(LastAttr(block[1].attrs, "name").v)

Parseable(block) == HasName(block) /\ HasLink(block, "parent") /\ HasLink(block, "child")

Blocks == extractJointBlocks(xml)

ParseableBlocks == SelectSeq(Blocks, Parseable)

\* the axis the block gives before normalisation: its xyz, or (1,0,0) without one
GivenAxis(block) ==
  LET s == optAttr(parseFirstSelfOrOpenTag(block, "axis"), "xyz")
  IN  IF s.some /\ s.v # <<>> THEN parseXyz(s) ELSE vec3(ROne, RZero, RZero)

Dot(a, b) == RAdd(RAdd(RMul(a.x, b.x), RMul(a.y, b.y)), RMul(a.z, b.z))

Cross(a, b) ==
  [x |-> RSub(RMul(a.y, b.z), RMul(a.z, b.y)),
   y |-> RSub(RMul(a.z, b.x), RMul(a.x, b.z)),
   z |-> RSub(RMul(a.x, b.y), RMul(a.y, b.x))]

\* the type attribute of the block names no moving joint type
NotMovingType(block) ==
  LET t == LastAttr(block[1].attrs, "type")
  IN  ~t.some \/ trim(t.v) \notin {word("revolute"), word("continuous"), word("prismatic")}

(***************************************************************************)
(* C1: every joint starts at 0, a call that sets values leaves each joint  *)
(* of the model at the position paired with the last occurrence of its     *)
(* name in the update (0 beyond the end of position[]) or, if the update   *)
(* does not name it, at its previous value; no other step changes a value; *)
(* and the transforms compute returns are those of exactly these values.   *)
(***************************************************************************)
C1_Step ==
  /\ \A n \in ModelNames(engine') :
       JointValue(engine', n) =
         IF frame'.op \in {"setJointState", "computeFromJointState"}
            /\ Mentions(frame'.jointState, n)
         THEN PairedPosition(frame'.jointState, n)
         ELSE JointValue(engine, n)
  /\ frame'.op \in {"compute", "computeFromJointState"} =>
       /\ Len(ret'.v.transforms) = Len(engine'.jointsByName)
       /\ \A i \in 1..Len(engine'.jointsByName) :
            ret'.v.transforms[i] = transformOf(ModelJoint(engine', i), frame'.options)

C1_LastUpdateWins ==
  /\ \A n \in ModelNames(engine) : JointValue(engine, n) = RZero
  /\ [][C1_Step]_vars

\* joint1 named twice with one position: the last occurrence has none, so 0;
\* joint2, set by an earlier update, keeps its value
C1_Witness ==
  /\ frame.op = "setJointState"
  /\ frame.jointState = [name |-> <<word("joint1"), word("joint1")>>, position |-> <<RTwo>>]
  /\ MapHas(engine.jointsByName, word("joint1"))
  /\ MapHas(engine.jointsByName, word("joint2"))
  /\ JointValue(engine, word("joint1")) = RZero
  /\ JointValue(engine, word("joint2")) = RHalf

C3_Step ==
  frame'.op = "setJointState" =>
    /\ ret' = None
    /\ engine'.jointsByName = engine.jointsByName
    /\ engine'.jointsByParentLink = engine.jointsByParentLink
    /\ engine'.linkParent = engine.linkParent
    /\ DOMAIN engine' = DOMAIN engine
    /\ Len(engine'.heap) = Len(engine.heap)
    /\ \A i \in 1..Len(engine.heap) :
         /\ [engine'.heap[i] EXCEPT !.q = engine.heap[i].q] = engine.heap[i]
         /\ engine'.heap[i].q # engine.heap[i].q =>
              /\ Mentions(frame'.jointState, engine.heap[i].name)
              /\ MapGet(engine.jointsByName, engine.heap[i].name) = Some(i)
    /\ (\A k \in 1..Len(frame'.jointState.name) :
          ~MapHas(engine.jointsByName, frame'.jointState.name[k]))
       => engine' = engine

C3_OnlyNamedValuesChange == [][C3_Step]_vars

\* an update of an unknown name only, on an engine whose joints hold values
C3_Witness ==
  /\ frame.op = "setJointState"
  /\ frame.jointState = [name |-> <<word("ghost")>>, position |-> <<RTwo>>]
  /\ ret = None
  /\ Len(engine.jointsByName) = 2
  /\ \A i \in 1..Len(engine.jointsByName) : ModelJoint(engine, i).q = RHalf

(***************************************************************************)
(* C4: a computeFromJointState call leaves the engine and returns the      *)
(* value that setJointState followed by compute, with the same arguments,  *)
(* leave and return from the same engine state.                            *)
(***************************************************************************)
C4_Step ==
  frame'.op = "computeFromJointState" =>
    LET s == setJointState(engine, frame'.jointState)
        c == compute(s.this, frame'.options)
    IN  engine' = c.this /\ ret' = c.ret

C4_SameAsSetThenCompute == [][C4_Step]_vars

\* a call whose update moves the prismatic joint of the README's description
C4_Witness ==
  /\ frame.op = "computeFromJointState"
  /\ frame.jointState = [name |-> <<word("joint2"), word("joint1")>>,
                         position |-> <<RHalf, RTwo>>]
  /\ Len(Transforms) = 2
  /\ Transforms[2].transform.translation = vec3(RHalf, ROne, RZero)
  /\ Transforms[1].header.stamp.sec = 1

(***************************************************************************)
(* C5: a compute call leaves the engine as it was, and a compute that      *)
(* follows a compute with the same options returns the same value.         *)
(***************************************************************************)
C5_Step ==
  frame'.op = "compute" =>
    /\ engine' = engine
    /\ (frame.op = "compute" /\ frame.options = frame'.options) => ret' = ret

C5_ComputeIsPure == [][C5_Step]_vars

C5_Witness ==
  /\ frame.op = "compute"
  /\ frame.options = SomeTime
  /\ Len(Transforms) = 2
  /\ \A i \in 1..Len(engine.jointsByName) : ModelJoint(engine, i).q = RTwo

(***************************************************************************)
(* C6: compute returns one record per joint of the model, in the model's   *)
(* order, with the joint's parent and child links; among the parsed blocks *)
(* there is one record per distinct name, carrying the links of the last   *)
(* block of that name; with no parseable block the list is empty.          *)
(***************************************************************************)
C6_OneRecordPerJoint ==
  Computed =>
    LET parsed == parsedJoints(Blocks)
    IN  /\ ret.some
        /\ Len(Transforms) = Len(engine.jointsByName)
        /\ Len(Transforms) = Cardinality({parsed[k].name : k \in 1..Len(parsed)})
        /\ \A i \in 1..Len(Transforms) :
             /\ Transforms[i].header.frame_id = ModelJoint(engine, i).parent
             /\ Transforms[i].child_frame_id = ModelJoint(engine, i).child
             /\ \E k \in 1..Len(parsed) :
                  /\ parsed[k].name = engine.jointsByName[i].k
                  /\ \A l \in (k + 1)..Len(parsed) : parsed[l].name # parsed[k].name
                  /\ Transforms[i].header.frame_id = parsed[k].parent
                  /\ Transforms[i].child_frame_id = parsed[k].child
        /\ \A i, k \in 1..Len(Transforms) :
             i # k => engine.jointsByName[i].k # engine.jointsByName[k].k
        /\ parsed = <<>> => Transforms = <<>>

\* two parsed blocks of one name with different links, one record
C6_Witness ==
  /\ Computed
  /\ LET parsed == parsedJoints(Blocks)
     IN  /\ Len(parsed) = 2
         /\ parsed[1].name = parsed[2].name
         /\ parsed[1].child # parsed[2].child
         /\ Len(Transforms) = 1
         /\ Transforms[1].child_frame_id = parsed[2].child

(***************************************************************************)
(* C7: the joints that parsing keeps are, in order, the blocks with a      *)
(* non-blank name and a non-blank link on the first self-closing parent    *)
(* and child elements; every other block is dropped and the rest still     *)
(* enter the model; every joint has a non-empty name, parent and child.    *)
(***************************************************************************)
C7_OnlyLinkedJointsEnter ==
  /\ Len(engine.heap) = Len(ParseableBlocks)
  /\ \A i \in 1..Len(engine.heap) :
       LET b == ParseableBlocks[i]
           j == engine.heap[i]
       IN  /\ NonBlank(j.name) /\ NonBlank(j.parent) /\ NonBlank(j.child)
           /\ j.name = trim(LastAttr(b[1].attrs, "name").v)
           /\ MapHas(engine.jointsByName, j.name)
  /\ \A i \in 1..Len(engine.jointsByName) :
       /\ engine.jointsByName[i].v \in 1..Len(engine.heap)
       /\ ModelJoint(engine, i).name = engine.jointsByName[i].k

\* a block whose parent is an open/close pair is dropped, the next one is kept
C7_Witness ==
  /\ Len(Blocks) = 2
  /\ ~HasLink(Blocks[1], "parent")
  /\ \E i \in 1..Len(Blocks[1]) : Blocks[1][i].tag = "parent" /\ Blocks[1][i].kind = "open"
  /\ Parseable(Blocks[2])
  /\ Len(engine.jointsByName) = 1

(***************************************************************************)
(* C8, as claimed: every joint of the model has an axis of unit length,    *)
(* whatever the axis xyz attribute was.                                    *)
(***************************************************************************)
C8_AxisUnitLength ==
  \A i \in 1..Len(engine.heap) : SquaredLength(engine.heap[i].axis) = ROne

(***************************************************************************)
(* C8, amended: the axis of a joint is the unit vector along the xyz the   *)
(* attribute gives ((1,0,0) when it is absent or empty), except that a     *)
(* zero-length xyz is left as the zero vector.                             *)
(***************************************************************************)
C8_AxisUnitUnlessZero ==
  \A i \in 1..Len(engine.heap) :
    LET a   == engine.heap[i].axis
        raw == GivenAxis(ParseableBlocks[i])
    IN  IF raw = vec3(RZero, RZero, RZero)
        THEN a = vec3(RZero, RZero, RZero)
        ELSE /\ SquaredLength(a) = ROne
             /\ Cross(a, raw) = vec3(RZero, RZero, RZero)
             /\ Dot(a, raw)[1] > 0

\* axis "2 0 0" parsed to (1,0,0) next to axis "0 0 0" left at (0,0,0)
C8_Witness ==
  /\ Len(engine.heap) = 2
  /\ GivenAxis(ParseableBlocks[1]) = vec3(RTwo, RZero, RZero)
  /\ engine.heap[1].axis = vec3(ROne, RZero, RZero)
  /\ GivenAxis(ParseableBlocks[2]) = vec3(RZero, RZero, RZero)
  /\ engine.heap[2].axis = vec3(RZero, RZero, RZero)

(***************************************************************************)
(* C9: the transform compute emits for a fixed joint, and for a joint      *)
(* whose block names no moving type, is the joint's origin, whatever value *)
(* has been set under its name.                                            *)
(***************************************************************************)
C9_FixedIsOrigin ==
  Computed =>
    \A i \in 1..Len(engine.jointsByName) :
      LET h == engine.jointsByName[i].v
          j == engine.heap[h]
      IN  (j.type = "fixed" \/ NotMovingType(ParseableBlocks[h])) =>
            Transforms[i].transform = [translation |-> j.origin.t, rotation |-> j.origin.r]

\* a value set on a joint with no type attribute and one with an unknown type
C9_Witness ==
  /\ Computed
  /\ Len(engine.jointsByName) = 2
  /\ \A i \in 1..2 :
       /\ ModelJoint(engine, i).q = RTwo
       /\ ModelJoint(engine, i).origin.r # quatIdentity
  /\ ~LastAttr(ParseableBlocks[1][1].attrs, "type").some
  /\ LastAttr(ParseableBlocks[2][1].attrs, "type") = Some(word("floating"))

(***************************************************************************)
(* C10: with publishTimeNs supplied every record's stamp has               *)
(* sec * 1e9 + nanosec = publishTimeNs and 0 <= nanosec < 1e9; without it  *)
(* sec and nanosec are 0.                                                  *)
(***************************************************************************)
C10_TimestampSplit ==
  Computed =>
    \A i \in 1..Len(Transforms) :
      LET stamp == Transforms[i].header.stamp
      IN  IF frame.options.publishTimeNs.some
          THEN /\ stamp.sec * NsPerSec + stamp.nanosec = frame.options.publishTimeNs.v
               /\ 0 <= stamp.nanosec /\ stamp.nanosec < NsPerSec
          ELSE stamp = [sec |-> 0, nanosec |-> 0]

====
